---- MODULE Spec2Model ----
(***************************************************************************)
(* Book exchange platform: the exchange-request workflow of the backend    *)
(* (controllers/transactionController.ts), the parts of the book and user  *)
(* controllers that touch the same documents, and the Express router that  *)
(* binds URL path parameters to the handlers.                              *)
(*                                                                         *)
(* Spec runs the exported controller functions of books, transactions and  *)
(* account deletion, with req.params carrying the parameter name each      *)
(* handler reads.  ExchangeSpec runs createExchangeRequest and             *)
(* updateExchangeStatus alone, and ConversationSpec updateExchangeStatus   *)
(* and addMessage, from the store that holds one listed book and one       *)
(* pending request.  CatalogSpec runs the book handlers with               *)
(* createExchangeRequest and deleteAccount.  RoutedSpec runs the handlers  *)
(* behind the routes declared in routes/transactionRoutes.ts, so           *)
(* req.params carries the names the route patterns declare.  AuthSpec runs *)
(* the public routes of controllers/authController.ts against a clock, and *)
(* RecoverySpec the password-recovery routes among them; PasswordSpec adds *)
(* updateProfilePassword to these.  TokenSpec runs register, login and the *)
(* auth middleware under every configuration of JWT_SECRET.  ListingSpec   *)
(* runs GET /api/books over catalogues and preferences drawn from bounded  *)
(* sets.  Handlers run one at a time, each as one step, except register,   *)
(* which is two steps (the lookup of the email and the save) so that       *)
(* registrations interleave, and createExchangeRequest in RaceSpec, which  *)
(* is two steps (the read of the book and the saves).  ContestedSpec       *)
(* starts from the store two such interleaved requests leave.              *)
(***************************************************************************)
EXTENDS Integers, Sequences, FiniteSets, TLC

VARIABLES users, books, transactions, res, writes, accounts, registering, now,
          env, requesting

vars == <<users, books, transactions, res, writes, accounts, registering, now,
          env, requesting>>

---------------------------------------------------------------------------
(* Bounds *)

\* The number of requests that write to the store in one run.
MaxWrites == 3

\* The last tick of the clock.
MaxNow == 3

---------------------------------------------------------------------------
(* Values *)

\* JavaScript undefined / null, as they reach the handlers.
Undefined == "undefined"
Null == "null"

\* Registered accounts; the id carried by the bearer token (middleware/auth.ts).
Users == {"alice", "bob", "carol"}

BookId(i) == "b" \o ToString(i)
TxId(i) == "t" \o ToString(i)

\* A path or body id that is not 24 hex characters.
Malformed == "not-an-id"

\* Well-formed ids: every id the store has handed out or could hand out.
ObjectIds == Users \cup {BookId(i) : i \in 1..(MaxWrites + 1)}
                   \cup {TxId(i) : i \in 1..(MaxWrites + 1)}

BookStatus == {"available", "pending", "exchanged"}

TransactionStatus ==
    {"pending", "accepted", "rejected", "modified", "completed", "cancelled"}

\* Message texts a caller may put in a request body ("" is falsy in JS).
BodyMessages == {Undefined, "", "hi"}

\* Status values a caller may put in a request body; "bogus" is outside the enum.
BodyStatuses == TransactionStatus \cup {"bogus"}

---------------------------------------------------------------------------
(* The document store *)

\* Types.ObjectId.isValid
isValid(id) == id \in ObjectIds

BookExists(id) == \E i \in 1..Len(books) : BookId(i) = id /\ books[i].present
BookIndex(id) == CHOOSE i \in 1..Len(books) : BookId(i) = id

TxExists(id) == \E i \in 1..Len(transactions) : TxId(i) = id
TxIndex(id) == CHOOSE i \in 1..Len(transactions) : TxId(i) = id

\* A request that fails leaves the store as it was; one that writes uses up
\* one unit of the run's budget.
Rejected == UNCHANGED writes
Committed == writes < MaxWrites /\ writes' = writes + 1

\* JavaScript truthiness of a request-body string.
Truthy(x) == x \notin {Undefined, Null, ""}

Respond(op, code, error) == [op |-> op, code |-> code, error |-> error]

\* bcrypt.hash and bcrypt.compare: a hash is not the text it was made from,
\* and compare holds exactly for the text the hash was made from.
Hash(s) == "$2a$10$" \o s
compare(s, hash) == hash = Hash(s)

Email(name) == name \o "@x.io"

\* The answers the registered accounts gave to the three security questions.
SecurityAnswers == <<"rex", "oslo", "blue">>

\* A User document: credentials, the reset code and its expiry.  An expiry
\* that is not set is 0 (no $gt comparison with a time holds for it).
NewUser(id, email, password, name, hashedAnswers) ==
    [_id |-> id, email |-> email, password |-> password, name |-> name,
     securityAnswers |-> hashedAnswers,
     resetPasswordToken |-> Undefined, resetPasswordExpires |-> 0,
     present |-> TRUE]

\* The users collection with the accounts of Users registered, in the order
\* alice, bob, carol.
Registered ==
    [i \in 1..3 |->
        LET u == <<"alice", "bob", "carol">>[i]
        IN  NewUser(u, Email(u), Hash("pw"), u,
                    [k \in 1..3 |-> Hash(SecurityAnswers[k])])]

Init ==
    /\ users = Users
    /\ books = <<>>
    /\ transactions = <<>>
    /\ res = Respond("none", 0, "")
    /\ writes = 0
    /\ accounts = Registered
    /\ registering = {}
    /\ now = 0
    /\ env = "s3cret"
    /\ requesting = {}

---------------------------------------------------------------------------
(* bookController.ts *)

\* req.body[name]; a field the body does not carry reads undefined.
Field(body, name) == IF name \in DOMAIN body THEN body[name] ELSE Undefined

\* createBook: new Book({...req.body, owner}); owner is set after the spread,
\* so it replaces an owner of the body.  The schema defaults status to
\* 'available' when the body carries none and validates it against the enum;
\* title is required.  After the save the owner is populated and read: for a
\* caller whose account is gone it is null and the handler throws.
createBook(userId, body) ==
    /\ LET doc == [owner |-> userId,
                   status |-> IF Field(body, "status") = Undefined
                              THEN "available" ELSE Field(body, "status"),
                   title |-> Field(body, "title"),
                   present |-> TRUE]
       IN  IF doc.status \notin BookStatus \/ ~Truthy(doc.title)
           THEN /\ res' = Respond("createBook", 500, "Failed to create book")
                /\ UNCHANGED books
                /\ Rejected
           ELSE /\ Committed
                /\ books' = Append(books, doc)
                /\ res' = IF userId \in users
                          THEN Respond("createBook", 201, "")
                          ELSE Respond("createBook", 500, "Failed to create book")
    /\ UNCHANGED <<users, transactions>>

\* Lines 236-243: the fields updateBook copies from the body.
updateData_WholeBody(body) == body

updateData(body) == [title |-> Field(body, "title")]

\* findOneAndUpdate: the stored document with the fields of data set.
ApplyUpdate(book, data) ==
    [f \in DOMAIN book |-> IF f \in DOMAIN data THEN data[f] ELSE book[f]]

updateBook(userId, id, body) ==
    /\ IF ~isValid(id)
       THEN /\ res' = Respond("updateBook", 500, "Failed to update book")
            /\ UNCHANGED books
            /\ Rejected
       ELSE IF ~BookExists(id)
       THEN /\ res' = Respond("updateBook", 404, "Book not found")
            /\ UNCHANGED books
            /\ Rejected
       ELSE IF books[BookIndex(id)].owner # userId
       THEN /\ res' = Respond("updateBook", 403,
                              "Not authorized to update this book")
            /\ UNCHANGED books
            /\ Rejected
       ELSE /\ Committed
            /\ books' = [books EXCEPT ![BookIndex(id)] =
                             ApplyUpdate(@, updateData(body))]
            /\ res' = IF userId \in users
                      THEN Respond("updateBook", 200, "")
                      ELSE \* the populated owner is null
                           Respond("updateBook", 500, "Failed to update book")
    /\ UNCHANGED <<users, transactions>>

\* deleteBook with the owner left out of the filter.
deleteBook_ByAnyone(userId, id) ==
    /\ IF ~isValid(id)
       THEN /\ res' = Respond("deleteBook", 500, "Delete failed")
            /\ UNCHANGED books
            /\ Rejected
       ELSE IF ~BookExists(id)
       THEN /\ res' = Respond("deleteBook", 404, "Book not found")
            /\ UNCHANGED books
            /\ Rejected
       ELSE /\ Committed
            /\ books' = [books EXCEPT ![BookIndex(id)].present = FALSE]
            /\ res' = Respond("deleteBook", 200, "")
    /\ UNCHANGED <<users, transactions>>

\* deleteBook: Book.findOneAndDelete({_id: req.params.id, owner: req.userId})
deleteBook(userId, id) ==
    /\ IF ~isValid(id)
       THEN /\ res' = Respond("deleteBook", 500, "Delete failed")
            /\ UNCHANGED books
            /\ Rejected
       ELSE IF ~(BookExists(id) /\ books[BookIndex(id)].owner = userId)
       THEN /\ res' = Respond("deleteBook", 404, "Book not found")
            /\ UNCHANGED books
            /\ Rejected
       ELSE /\ Committed
            /\ books' = [books EXCEPT ![BookIndex(id)].present = FALSE]
            /\ res' = Respond("deleteBook", 200, "")
    /\ UNCHANGED <<users, transactions>>

\* Line 7.
ITEMS_PER_PAGE == 15

\* Lines 76-77: currentUser?.preferences?.genres || [] for the user
\* User.findById(userId) finds; no user, or a user without preferences, gives
\* the empty list.
userGenres(userId) ==
    LET found == {i \in 1..Len(accounts) :
                    accounts[i]._id = userId /\ accounts[i].present}
    IN  IF found = {} THEN {}
        ELSE LET user == accounts[CHOOSE i \in found : TRUE]
             IN  IF "genres" \in DOMAIN user THEN user.genres ELSE {}

\* Lines 79, 91-93: Book.find({status: 'available'}) with the genre filter,
\* in the order of the collection.
FindAvailable(genreFilter) ==
    LET docs == [i \in 1..Len(books) |->
                    [_id |-> BookId(i), genre |-> Field(books[i], "genre"),
                     status |-> books[i].status, present |-> books[i].present]]
        Matches(doc) ==
            /\ doc.present
            /\ doc.status = "available"
            /\ (Truthy(genreFilter) /\ genreFilter # "All")
                   => doc.genre = genreFilter
    IN  SelectSeq(docs, Matches)

\* Lines 105-107: skip((page - 1) * ITEMS_PER_PAGE).limit(ITEMS_PER_PAGE)
Page(docs, page) ==
    LET first == (page - 1) * ITEMS_PER_PAGE + 1
        last == IF Len(docs) < page * ITEMS_PER_PAGE
                THEN Len(docs) ELSE page * ITEMS_PER_PAGE
    IN  SubSeq(docs, first, last)

\* Lines 112-117 and the default of the switch: the comparator of the sort.
\* The modes that compare creation times and titles are not requested here.
compareBooks(sortBy, genres, a, b) ==
    IF sortBy = "recommended" /\ genres # {}
    THEN (IF b.genre \in genres THEN 1 ELSE 0)
             - (IF a.genre \in genres THEN 1 ELSE 0)
    ELSE 0

\* Array.prototype.sort is stable: an element moves before those that the
\* comparator puts after it, and stays behind its equals.
RECURSIVE InsertSorted(_, _, _, _)
InsertSorted(sorted, x, sortBy, genres) ==
    IF sorted = <<>>
           \/ compareBooks(sortBy, genres, sorted[Len(sorted)], x) <= 0
    THEN Append(sorted, x)
    ELSE Append(InsertSorted(SubSeq(sorted, 1, Len(sorted) - 1), x,
                             sortBy, genres),
                sorted[Len(sorted)])

RECURSIVE sortedBooks(_, _, _)
sortedBooks(docs, sortBy, genres) ==
    IF docs = <<>> THEN <<>>
    ELSE InsertSorted(sortedBooks(SubSeq(docs, 1, Len(docs) - 1),
                                  sortBy, genres),
                      docs[Len(docs)], sortBy, genres)

\* getBooks: the available books of the page, sorted; userId is req.userId.
getBooks(userId, query) ==
    /\ res' = [op |-> "getBooks", code |-> 200, error |-> "",
               books |-> sortedBooks(Page(FindAvailable(query.genre),
                                          query.page),
                                     query.sortBy, userGenres(userId))]
    /\ Rejected
    /\ UNCHANGED <<users, books, transactions>>

---------------------------------------------------------------------------
(* transactionController.ts *)

\* The message list a new transaction is seeded with (lines 37-42); the
\* schema defaults notified to false.
SeedMessages(requesterId, message) ==
    IF message \notin {Undefined, ""}
    THEN <<[sender |-> requesterId, content |-> message,
            read |-> FALSE, notified |-> FALSE]>>
    ELSE <<>>

\* The self-request guard (line 26).
IsOwnBook_Dropped(book, userId) == FALSE
IsOwnBook(book, userId) == book.owner = userId

\* The availability guard (line 21).
NotAvailable_OnlyExchanged(book) == book.status = "exchanged"
NotAvailable(book) == book.status # "available"

createExchangeRequest(userId, bookId, termsOk, message) ==
    /\ IF ~isValid(bookId)
       THEN /\ res' = Respond("createExchangeRequest", 500,
                              "Failed to create exchange request")
            /\ UNCHANGED <<books, transactions>>
            /\ Rejected
       ELSE IF ~BookExists(bookId)
       THEN /\ res' = Respond("createExchangeRequest", 404, "Book not found")
            /\ UNCHANGED <<books, transactions>>
            /\ Rejected
       ELSE LET b == BookIndex(bookId)
                book == books[b]
            IN  IF NotAvailable(book)
                THEN /\ res' = Respond("createExchangeRequest", 400,
                                       "Book is not available for exchange")
                     /\ UNCHANGED <<books, transactions>>
                     /\ Rejected
                ELSE IF IsOwnBook(book, userId)
                THEN /\ res' = Respond("createExchangeRequest", 400,
                                       "Cannot request your own book")
                     /\ UNCHANGED <<books, transactions>>
                     /\ Rejected
                ELSE IF ~termsOk
                THEN \* transaction.save() fails schema validation of terms
                     /\ res' = Respond("createExchangeRequest", 500,
                                       "Failed to create exchange request")
                     /\ UNCHANGED <<books, transactions>>
                     /\ Rejected
                ELSE /\ Committed
                     /\ transactions' = Append(transactions,
                            [book |-> bookId,
                             requester |-> userId,
                             owner |-> book.owner,
                             status |-> "pending",
                             lastModifiedBy |-> userId,
                             messages |-> SeedMessages(userId, message)])
                     /\ books' = [books EXCEPT ![b].status = "pending"]
                     /\ res' = Respond("createExchangeRequest", 201, "")
    /\ UNCHANGED users

\* Lines 15-29 as a step of their own: the handler up to the answer of
\* Book.findById and the checks on the book it read.  A request that passes
\* them is in flight, holding what it read, until it saves.
createExchangeRequestFind(userId, bookId, termsOk, message) ==
    /\ IF ~isValid(bookId)
       THEN /\ res' = Respond("createExchangeRequest", 500,
                              "Failed to create exchange request")
            /\ UNCHANGED requesting
       ELSE IF ~BookExists(bookId)
       THEN /\ res' = Respond("createExchangeRequest", 404, "Book not found")
            /\ UNCHANGED requesting
       ELSE LET book == books[BookIndex(bookId)]
            IN  IF NotAvailable(book)
                THEN /\ res' = Respond("createExchangeRequest", 400,
                                       "Book is not available for exchange")
                     /\ UNCHANGED requesting
                ELSE IF IsOwnBook(book, userId)
                THEN /\ res' = Respond("createExchangeRequest", 400,
                                       "Cannot request your own book")
                     /\ UNCHANGED requesting
                \* A caller has one request for a book in flight at a time.
                ELSE /\ [userId |-> userId, bookId |-> bookId] \notin
                            {[userId |-> r.userId, bookId |-> r.bookId] :
                                r \in requesting}
                     /\ requesting' = requesting \cup
                            {[userId |-> userId, bookId |-> bookId,
                              owner |-> book.owner, termsOk |-> termsOk,
                              message |-> message]}
                     /\ UNCHANGED res
    /\ Rejected
    /\ UNCHANGED <<users, books, transactions>>

\* Lines 45-49: transaction.save() and book.save() carry no condition on
\* the status the book has by now.
SaveRefused_Stale(request) ==
    books[BookIndex(request.bookId)].status # "available"

SaveRefused(request) == FALSE

\* Lines 31-70: the rest of the handler, for a request in flight.  The
\* transaction is saved, then the book as it was read with status pending;
\* saving a book deleted in between throws after the transaction is stored.
createExchangeRequestSave(request) ==
    /\ request \in requesting
    /\ requesting' = requesting \ {request}
    /\ IF ~request.termsOk \/ SaveRefused(request)
       THEN /\ res' = Respond("createExchangeRequest", 500,
                              "Failed to create exchange request")
            /\ UNCHANGED <<books, transactions>>
            /\ Rejected
       ELSE /\ Committed
            /\ transactions' = Append(transactions,
                   [book |-> request.bookId,
                    requester |-> request.userId,
                    owner |-> request.owner,
                    status |-> "pending",
                    lastModifiedBy |-> request.userId,
                    messages |-> SeedMessages(request.userId, request.message)])
            /\ IF books[BookIndex(request.bookId)].present
               THEN /\ books' = [books EXCEPT
                                    ![BookIndex(request.bookId)].status = "pending"]
                    /\ res' = Respond("createExchangeRequest", 201, "")
               ELSE /\ UNCHANGED books
                    /\ res' = Respond("createExchangeRequest", 500,
                                      "Failed to create exchange request")
    /\ UNCHANGED users

\* req.params[name]; a name the route pattern did not declare reads undefined.
Param(params, name) == IF name \in DOMAIN params THEN params[name] ELSE Undefined

\* Lines 94-95.
isOwner(transaction, userId) == transaction.owner = userId
isRequester(transaction, userId) == transaction.requester = userId

\* Lines 97-111: the error of the role checks, "" when they all pass.
AuthorizationError(owner, requester, status) ==
    IF ~owner /\ ~requester
    THEN "Not authorized to update this exchange"
    ELSE IF status \in {"accepted", "rejected"} /\ ~owner
    THEN "Only the owner can accept or reject requests"
    ELSE IF status = "cancelled" /\ ~requester
    THEN "Only the requester can cancel requests"
    ELSE ""

\* Lines 118-124: statusMessages[status] || ''
statusMessages_Renamed(status) ==
    CASE status = "accepted" -> "Request accepted"
      [] status = "rejected" -> "Request rejected"
      [] status = "cancelled" -> "Request cancelled"
      [] OTHER -> ""

statusMessages(status) ==
    CASE status = "accepted" -> "Request accepted"
      [] status = "rejected" -> "Request rejected"
      [] status = "cancelled" -> "Request withdrawn"
      [] OTHER -> ""

\* Lines 126-134: the message list after the status-change push.
PushStatusMessage_Joined(messages, userId, status, message) ==
    IF Truthy(statusMessages(status)) \/ Truthy(message)
    THEN Append(messages,
            [sender |-> userId,
             content |-> IF Truthy(message)
                         THEN statusMessages(status) \o ": " \o message
                         ELSE statusMessages(status),
             read |-> FALSE,
             notified |-> FALSE])
    ELSE messages

PushStatusMessage(messages, userId, status, message) ==
    IF Truthy(statusMessages(status)) \/ Truthy(message)
    THEN Append(messages,
            [sender |-> userId,
             content |-> IF Truthy(message) THEN message
                         ELSE statusMessages(status),
             read |-> FALSE,
             notified |-> FALSE])
    ELSE messages

\* Lines 139-141: the book status written back.
BookStatusAfter_CancelKeeps(status, current) ==
    IF status = "accepted" THEN "pending"
    ELSE IF status = "rejected" THEN "available"
    ELSE current

BookStatusAfter(status, current) ==
    IF status = "accepted" THEN "pending"
    ELSE IF status \in {"rejected", "cancelled"} THEN "available"
    ELSE current

updateExchangeStatus(userId, params, status, message) ==
    LET exchangeId == Param(params, "exchangeId")
        op == "updateExchangeStatus"
    IN
    /\ IF ~isValid(exchangeId)
       THEN /\ res' = Respond(op, 400, "Invalid exchange ID")
            /\ UNCHANGED <<books, transactions>>
            /\ Rejected
       ELSE IF ~TxExists(exchangeId)
       THEN /\ res' = Respond(op, 404, "Exchange request not found")
            /\ UNCHANGED <<books, transactions>>
            /\ Rejected
       ELSE LET t == TxIndex(exchangeId)
                transaction == transactions[t]
                denied == AuthorizationError(isOwner(transaction, userId),
                                             isRequester(transaction, userId),
                                             status)
                messages == PushStatusMessage(transaction.messages, userId,
                                              status, message)
            IN  IF denied # ""
                THEN /\ res' = Respond(op, 403, denied)
                     /\ UNCHANGED <<books, transactions>>
                     /\ Rejected
                ELSE IF status \notin TransactionStatus
                THEN \* book.save() rewrites the status it read;
                     \* transaction.save() fails the enum validation
                     /\ res' = Respond(op, 500, "Failed to update exchange status")
                     /\ UNCHANGED <<books, transactions>>
                     /\ Rejected
                ELSE /\ Committed
                     /\ books' =
                          IF BookExists(transaction.book)
                          THEN [books EXCEPT ![BookIndex(transaction.book)].status =
                                   BookStatusAfter(status, @)]
                          ELSE books
                     /\ transactions' =
                          [transactions EXCEPT ![t] =
                              [@ EXCEPT !.status = status,
                                        !.lastModifiedBy = userId,
                                        !.messages = messages]]
                     /\ res' = Respond(op, 200, "")
    /\ UNCHANGED users

\* Lines 336: the participant check of addMessage.
IsParticipant_Anyone(transaction, userId) == TRUE

IsParticipant(transaction, userId) ==
    userId \in {transaction.owner, transaction.requester}

\* Lines 341-348: transaction.messages.push of addMessage.
PushMessage_Front(messages, userId, message) ==
    <<[sender |-> userId, content |-> message,
       read |-> FALSE, notified |-> TRUE]>> \o messages

PushMessage(messages, userId, message) ==
    Append(messages, [sender |-> userId, content |-> message,
                      read |-> FALSE, notified |-> TRUE])

addMessage(userId, params, message) ==
    LET exchangeId == Param(params, "exchangeId")
        op == "addMessage"
    IN
    /\ IF ~Truthy(exchangeId) \/ ~isValid(exchangeId)
       THEN /\ res' = Respond(op, 400, "Invalid exchange ID")
            /\ UNCHANGED transactions
            /\ Rejected
       ELSE IF ~TxExists(exchangeId)
       THEN /\ res' = Respond(op, 404, "Exchange request not found")
            /\ UNCHANGED transactions
            /\ Rejected
       ELSE LET t == TxIndex(exchangeId)
                transaction == transactions[t]
            IN  IF ~IsParticipant(transaction, userId)
                THEN /\ res' = Respond(op, 403,
                                  "Not authorized to message in this exchange")
                     /\ UNCHANGED transactions
                     /\ Rejected
                ELSE IF ~Truthy(message)
                THEN \* content is required: transaction.save() fails validation
                     /\ res' = Respond(op, 500, "Failed to send message")
                     /\ UNCHANGED transactions
                     /\ Rejected
                ELSE /\ Committed
                     /\ transactions' =
                          [transactions EXCEPT ![t].messages =
                              PushMessage(@, userId, message)]
                     /\ res' = Respond(op, 200, "")
    /\ UNCHANGED <<users, books>>

\* populate({path, select: 'name email'}): the referenced user document, or
\* null when that user no longer exists.
Populate(userId) == [isNull |-> userId \notin users, _id |-> userId]

\* Document.prototype.toString of a populated document: the inspect() rendering
\* of the whole document, not the id.
DocToString(doc) == "{ _id: " \o doc._id \o ", name, email }"

\* Lines 235-239: messages.$[elem].read = true for elem.sender = otherUser.
MarkRead(messages, otherUser) ==
    [i \in 1..Len(messages) |->
        IF messages[i].sender = otherUser
        THEN [messages[i] EXCEPT !.read = TRUE]
        ELSE messages[i]]

getExchangeDetails(userId, params) ==
    LET transactionId == Param(params, "transactionId")
        op == "getExchangeDetails"
    IN
    /\ IF transactionId = Undefined
       THEN \* findById(undefined) queries {_id: null}
            /\ res' = Respond(op, 404, "Exchange request not found")
            /\ UNCHANGED transactions
            /\ Rejected
       ELSE IF ~isValid(transactionId)
       THEN /\ res' = Respond(op, 500, "Failed to fetch exchange details")
            /\ UNCHANGED transactions
            /\ Rejected
       ELSE IF ~TxExists(transactionId)
       THEN /\ res' = Respond(op, 404, "Exchange request not found")
            /\ UNCHANGED transactions
            /\ Rejected
       ELSE LET t == TxIndex(transactionId)
                transaction == transactions[t]
                owner == Populate(transaction.owner)
                requester == Populate(transaction.requester)
                otherUser == IF DocToString(owner) = userId
                             THEN DocToString(requester)
                             ELSE DocToString(owner)
            IN  IF owner.isNull \/ requester.isNull
                THEN \* null.toString() throws
                     /\ res' = Respond(op, 500, "Failed to fetch exchange details")
                     /\ UNCHANGED transactions
                     /\ Rejected
                ELSE IF userId \notin {DocToString(owner), DocToString(requester)}
                THEN /\ res' = Respond(op, 403,
                                  "Not authorized to view this exchange")
                     /\ UNCHANGED transactions
                     /\ Rejected
                ELSE IF ~isValid(otherUser)
                THEN \* the filter's messages.sender does not cast to an ObjectId
                     /\ res' = Respond(op, 500, "Failed to fetch exchange details")
                     /\ UNCHANGED transactions
                     /\ Rejected
                ELSE /\ Committed
                     /\ transactions' =
                          [transactions EXCEPT ![t].messages =
                              MarkRead(@, otherUser)]
                     /\ res' = Respond(op, 200, "")
    /\ UNCHANGED <<users, books>>

\* Lines 255-266: the transactions the countDocuments filter matches:
\* requester or owner is userId, and some message has sender # userId and
\* read = false.
UnreadFilter(docs, userId) ==
    {i \in 1..Len(docs) :
        /\ userId \in {docs[i].requester, docs[i].owner}
        /\ \E k \in 1..Len(docs[i].messages) :
              /\ docs[i].messages[k].sender # userId
              /\ docs[i].messages[k].read = FALSE}

\* getUnreadCount: data.unreadCount of the response (the store is not written).
getUnreadCount(userId) == Cardinality(UnreadFilter(transactions, userId))

---------------------------------------------------------------------------
(* userController.ts *)

\* Lines 268-269: the filter of Transaction.updateMany.
Involves_RequesterOnly(transaction, userId) == userId = transaction.requester

Involves(transaction, userId) ==
    userId \in {transaction.requester, transaction.owner}

\* deleteAccount: the user's books are deleted, the transactions the user is
\* a party of are set to cancelled, and the user is deleted.
deleteAccount(userId) ==
    IF userId \notin users
    THEN /\ res' = Respond("deleteAccount", 404, "User not found")
         /\ UNCHANGED <<users, books, transactions, accounts>>
         /\ Rejected
    ELSE /\ Committed
         /\ books' = [i \in 1..Len(books) |->
                        IF books[i].owner = userId
                        THEN [books[i] EXCEPT !.present = FALSE]
                        ELSE books[i]]
         /\ transactions' = [i \in 1..Len(transactions) |->
                        IF Involves(transactions[i], userId)
                        THEN [transactions[i] EXCEPT !.status = "cancelled"]
                        ELSE transactions[i]]
         /\ users' = users \ {userId}
         /\ accounts' = [i \in 1..Len(accounts) |->
                        IF accounts[i]._id = userId
                        THEN [accounts[i] EXCEPT !.present = FALSE]
                        ELSE accounts[i]]
         /\ res' = Respond("deleteAccount", 200, "")

\* Line 100 of updateProfilePassword: bcrypt.compare(currentPassword,
\* user.password).
validPassword_Any(currentPassword, user) == TRUE

validPassword(currentPassword, user) == compare(currentPassword, user.password)

\* updateProfilePassword (lines 88-115); userId is req.userId, set by the
\* auth middleware.  bcrypt.compare and bcrypt.hash reject an argument that
\* is not a string.
updateProfilePassword(userId, currentPassword, newPassword) ==
    LET found == {i \in 1..Len(accounts) :
                    accounts[i]._id = userId /\ accounts[i].present}
        op == "updateProfilePassword"
    IN
    /\ IF found = {}
       THEN /\ res' = Respond(op, 404, "User not found")
            /\ UNCHANGED accounts
            /\ Rejected
       ELSE LET i == CHOOSE i \in found : TRUE
            IN  IF currentPassword = Undefined
                THEN /\ res' = Respond(op, 500, "Failed to update password")
                     /\ UNCHANGED accounts
                     /\ Rejected
                ELSE IF ~validPassword(currentPassword, accounts[i])
                THEN /\ res' = Respond(op, 400, "Current password is incorrect")
                     /\ UNCHANGED accounts
                     /\ Rejected
                ELSE IF newPassword = Undefined
                THEN /\ res' = Respond(op, 500, "Failed to update password")
                     /\ UNCHANGED accounts
                     /\ Rejected
                ELSE /\ Committed
                     /\ accounts' = [accounts EXCEPT
                                        ![i].password = Hash(newPassword)]
                     /\ res' = Respond(op, 200, "")
    /\ UNCHANGED <<users, books, transactions, registering, now, env, requesting>>

---------------------------------------------------------------------------
(* authController.ts *)

\* The lifetime of a reset code (3600000 ms), in ticks of the clock.
Hour == 2

\* The lifetime of a token (expiresIn: '24h').
Day == 24 * Hour

\* process.env.JWT_SECRET || 'defaultsecret': the key register and login sign
\* with.
SignSecret == IF Truthy(env) THEN env ELSE "defaultsecret"

\* process.env.JWT_SECRET!: the key the middleware verifies with.
VerifySecret == env

\* jwt.sign({userId}, secret, {expiresIn: '24h'}): a token carries its payload
\* and is bound to the key that signed it.
sign(userId, secret) == [userId |-> userId, key |-> secret, exp |-> now + Day]

\* jwt.verify(token, secret) returns the payload: the secret is given, it is
\* the key of the signature, and the token has not expired.
verifies(token, secret) ==
    /\ Truthy(secret)
    /\ token.key = secret
    /\ now < token.exp

\* The response of a register or login that succeeds: it carries the token.
Issued(op, code, userId) ==
    [op |-> op, code |-> code, error |-> "",
     token |-> sign(userId, SignSecret)]

\* User.findOne({email}): the stored accounts with that email.
FindByEmail(email) ==
    {i \in 1..Len(accounts) : accounts[i].present /\ accounts[i].email = email}

\* answer.toLowerCase().trim(), on the answers a request may carry.
Normalize(answer) ==
    CASE answer = " Rex " -> "rex"
      [] answer = "OSLO" -> "oslo"
      [] OTHER -> answer

UserId(i) == "u" \o ToString(i)

\* Lines 16-26 of register: the error of the body validation, "" when it passes.
RegisterInvalid(body) ==
    IF \/ ~Truthy(Field(body, "email")) \/ ~Truthy(Field(body, "password"))
       \/ ~Truthy(Field(body, "name")) \/ "securityAnswers" \notin DOMAIN body
    THEN "All fields are required"
    ELSE IF \/ Len(body.securityAnswers) # 3
            \/ \E k \in 1..Len(body.securityAnswers) :
                  ~Truthy(body.securityAnswers[k])
    THEN "Three security answers are required"
    ELSE ""

\* register up to the answer of User.findOne (lines 13-34): a request that
\* finds no user with its email goes on to hash and save.
registerFind(body) ==
    /\ IF RegisterInvalid(body) # ""
       THEN /\ res' = Respond("register", 400, RegisterInvalid(body))
            /\ UNCHANGED registering
       ELSE IF FindByEmail(body.email) # {}
       THEN /\ res' = Respond("register", 400, "Email already registered")
            /\ UNCHANGED registering
       ELSE \* requests in flight are told apart by their bodies
            /\ body \notin registering
            /\ registering' = registering \cup {body}
            /\ UNCHANGED res
    /\ Rejected
    /\ UNCHANGED <<users, books, transactions, accounts, now, env, requesting>>

\* register from user.save() on (lines 36-82): the unique index on email
\* refuses a second document with the same email, and the handler's catch
\* answers 500.
registerSave(body) ==
    /\ body \in registering
    /\ registering' = registering \ {body}
    /\ IF FindByEmail(body.email) # {}
       THEN /\ res' = Respond("register", 500,
                              "Registration failed, please try again")
            /\ UNCHANGED <<users, accounts>>
            /\ Rejected
       ELSE /\ Committed
            /\ accounts' = Append(accounts,
                  NewUser(UserId(Len(accounts) + 1), body.email,
                          Hash(body.password), body.name,
                          [k \in 1..3 |->
                              Hash(Normalize(body.securityAnswers[k]))]))
            /\ users' = users \cup {UserId(Len(accounts) + 1)}
            /\ res' = Issued("register", 201, UserId(Len(accounts) + 1))
    /\ UNCHANGED <<books, transactions, now, env, requesting>>

\* login: the response to a body {email, password}.  bcrypt.compare rejects
\* when the password is not a string, and the catch answers 500.
loginResponse(email, password) ==
    IF FindByEmail(email) = {}
    THEN Respond("login", 400, "Invalid credentials")
    ELSE IF password = Undefined
    THEN Respond("login", 500, "Login failed, please try again")
    ELSE IF ~compare(password, accounts[CHOOSE i \in FindByEmail(email) : TRUE].password)
    THEN Respond("login", 400, "Invalid credentials")
    ELSE Issued("login", 200, accounts[CHOOSE i \in FindByEmail(email) : TRUE]._id)

login(email, password) ==
    /\ res' = loginResponse(email, password)
    /\ Rejected
    /\ UNCHANGED <<users, books, transactions, accounts, registering, now, env,
                   requesting>>

---------------------------------------------------------------------------
(* middleware/auth.ts *)

\* auth: header is the Authorization header, <<>> when the request has none.
\* A token that verifies is decoded and its userId set on the request, which
\* goes on to the handler (no response yet: code 0).
auth(header) ==
    /\ IF header = <<>>
       THEN res' = Respond("auth", 401, "Authentication required")
       ELSE IF ~verifies(header[1], VerifySecret)
       THEN res' = Respond("auth", 401, "Invalid token")
       ELSE res' = [op |-> "auth", code |-> 0, error |-> "",
                    userId |-> header[1].userId]
    /\ Rejected
    /\ UNCHANGED <<users, books, transactions, accounts, registering, now, env,
                   requesting>>

---------------------------------------------------------------------------
(* authController.ts, password recovery *)

\* Lines 184-185 of resetPassword, and the rollback of forgotPassword.
ClearedCode_Kept(user) == user

ClearedCode_TokenOnly(user) == [user EXCEPT !.resetPasswordToken = Undefined]

ClearedCode(user) ==
    [user EXCEPT !.resetPasswordToken = Undefined, !.resetPasswordExpires = 0]

\* Lines 145-149 of forgotPassword: the code and its expiry are stored.
IssuedCode(user, otp) ==
    [user EXCEPT !.resetPasswordToken = otp,
                 !.resetPasswordExpires = now + Hour]

\* forgotPassword: otp is the code Math.random() yields, sent tells whether
\* sendEmail succeeds.
forgotPassword(email, otp, sent) ==
    /\ IF FindByEmail(email) = {}
       THEN /\ res' = Respond("forgotPassword", 404, "User not found")
            /\ UNCHANGED accounts
            /\ Rejected
       ELSE LET i == CHOOSE i \in FindByEmail(email) : TRUE
            IN  /\ Committed
                /\ IF sent
                   THEN /\ accounts' = [accounts EXCEPT ![i] = IssuedCode(@, otp)]
                        /\ res' = Respond("forgotPassword", 200, "")
                   ELSE \* the code is saved, then cleared and saved again
                        /\ accounts' = [accounts EXCEPT ![i] =
                               ClearedCode(IssuedCode(@, otp))]
                        /\ res' = Respond("forgotPassword", 500,
                                          "Failed to send OTP email")
    /\ UNCHANGED <<users, books, transactions, registering, now, env, requesting>>

\* Lines 171-175 of resetPassword: the users the findOne filter matches.
MatchesCode(email, otp) ==
    {i \in FindByEmail(email) :
        /\ accounts[i].resetPasswordToken = otp
        /\ accounts[i].resetPasswordExpires > now}

\* resetPassword; bcrypt.hash rejects a newPassword that is not a string.
resetPassword(email, otp, newPassword) ==
    /\ IF MatchesCode(email, otp) = {}
       THEN /\ res' = Respond("resetPassword", 400, "Invalid or expired OTP")
            /\ UNCHANGED accounts
            /\ Rejected
       ELSE IF newPassword = Undefined
       THEN /\ res' = Respond("resetPassword", 500, "Password reset failed")
            /\ UNCHANGED accounts
            /\ Rejected
       ELSE LET i == CHOOSE i \in MatchesCode(email, otp) : TRUE
            IN  /\ Committed
                /\ accounts' = [accounts EXCEPT ![i] =
                       ClearedCode([@ EXCEPT !.password = Hash(newPassword)])]
                /\ res' = Respond("resetPassword", 200, "")
    /\ UNCHANGED <<users, books, transactions, registering, now, env, requesting>>

\* Lines 212-224: every submitted answer matches the stored hash of its place.
AnswersMatch(user, answers) ==
    \A k \in 1..Len(answers) :
        compare(Normalize(answers[k]), user.securityAnswers[k])

\* verifySecurityAnswers: the response to a body {email, answers}.
verifyResponse(op, email, answers) ==
    IF FindByEmail(email) = {}
    THEN Respond(op, 400, "Invalid email or security answers")
    ELSE IF ~AnswersMatch(accounts[CHOOSE i \in FindByEmail(email) : TRUE],
                          answers)
    THEN Respond(op, 400, "Invalid security answers")
    ELSE Respond(op, 200, "")

verifySecurityAnswersResponse(email, answers) ==
    IF ~Truthy(email) \/ Len(answers) # 3
    THEN Respond("verifySecurityAnswers", 400,
                 "Email and three security answers are required")
    ELSE verifyResponse("verifySecurityAnswers", email, answers)

verifySecurityAnswers(email, answers) ==
    /\ res' = verifySecurityAnswersResponse(email, answers)
    /\ Rejected
    /\ UNCHANGED <<users, books, transactions, accounts, registering, now, env,
                   requesting>>

\* resetPasswordWithSecurityAnswers: the response to {email, answers,
\* newPassword}.
resetPasswordWithSecurityAnswersResponse(email, answers, newPassword) ==
    IF ~Truthy(email) \/ ~Truthy(newPassword) \/ Len(answers) # 3
    THEN Respond("resetPasswordWithSecurityAnswers", 400,
                 "Email, security answers, and new password are required")
    ELSE verifyResponse("resetPasswordWithSecurityAnswers", email, answers)

resetPasswordWithSecurityAnswers(email, answers, newPassword) ==
    /\ res' = resetPasswordWithSecurityAnswersResponse(email, answers, newPassword)
    /\ IF res'.code = 200
       THEN /\ Committed
            /\ accounts' = [accounts EXCEPT
                   ![CHOOSE i \in FindByEmail(email) : TRUE].password =
                       Hash(newPassword)]
       ELSE /\ UNCHANGED accounts
            /\ Rejected
    /\ UNCHANGED <<users, books, transactions, registering, now, env, requesting>>

\* Date.now() advances.
Tick ==
    /\ now < MaxNow
    /\ now' = now + 1
    /\ UNCHANGED <<users, books, transactions, res, writes, accounts,
                   registering, env, requesting>>

---------------------------------------------------------------------------
(* User records in response bodies *)

\* A query projection that names fields to include (populate's select): the
\* named fields the document has, and _id.
Select(user, fields) ==
    [f \in (fields \cup {"_id"}) \cap DOMAIN user |-> user[f]]

\* A query projection that names fields to leave out (select('-a -b')).
Deselect(user, fields) == [f \in DOMAIN user \ fields |-> user[f]]

\* populate of requester and owner of a transaction (select: 'name email').
PartyFields_WithPassword == {"name", "email", "password"}

PartyFields == {"name", "email"}

\* populate of messages.sender and lastModifiedBy (select: 'name').
SenderFields == {"name"}

\* populate of the owner of a book.
OwnerFields == {"name", "email", "preferences", "location"}

\* The user object of the register and login responses.
registerUser(user) == [id |-> user._id, name |-> user.name, email |-> user.email]
loginUser(user) == [id |-> user._id, name |-> user.name, email |-> user.email]

\* The owner object of a book response, built from the populated owner.
bookOwner(owner) == [id |-> owner._id, name |-> owner.name, email |-> owner.email]

\* userData of updateProfile, built from the user read with
\* select('-password -securityAnswers').
updateProfileData(user) == [id |-> user._id, name |-> user.name, email |-> user.email]

\* Every rendering of a stored user that a response body embeds.
ResponseUsers(user) ==
    {registerUser(user),
     loginUser(user),
     Select(user, PartyFields),
     Select(user, SenderFields),
     bookOwner(Select(user, OwnerFields)),
     updateProfileData(Deselect(user, {"password", "securityAnswers"}))}

---------------------------------------------------------------------------
(* Requests *)

BodyBookStatuses == {"exchanged", "bogus"}

\* Titles a book may be given.
Titles == {"Dune", "Emma"}

\* Bodies of POST /api/books: the required fields alone, or with a status or
\* an owner of the client's choosing.
CreateBodies ==
    {[title |-> "Dune"], [title |-> "Dune", owner |-> "carol"]}
        \cup {[title |-> "Dune", status |-> st] : st \in BodyBookStatuses}

\* Bodies of PATCH /api/books/:id: a title, alone or with a status and an
\* owner of the client's choosing.
UpdateBodies ==
    {[title |-> t] : t \in Titles}
        \cup {[title |-> "Emma", status |-> "exchanged", owner |-> "carol"]}

\* The accounts that list books (accounts are interchangeable).
Listers == {"alice"}

\* Ids a request may carry: those of the stored documents, and two ids of no
\* document, one well-formed and one malformed.
BookIds == {BookId(i) : i \in 1..(Len(books) + 1)} \cup {Malformed}
TxIds == {TxId(i) : i \in 1..Len(transactions)}
NoTxIds == {TxId(Len(transactions) + 1), Malformed}

\* The handlers of books and transactions leave the credentials alone.
authState == <<accounts, registering, now, env, requesting>>

CreateBook ==
    /\ \E u \in Listers, body \in CreateBodies : createBook(u, body)
    /\ UNCHANGED authState

UpdateBook ==
    /\ \E u \in Users, id \in BookIds, body \in UpdateBodies :
          updateBook(u, id, body)
    /\ UNCHANGED authState

DeleteBook ==
    /\ \E u \in Users, id \in BookIds : deleteBook(u, id)
    /\ UNCHANGED authState

CreateRequest ==
    /\ \E u \in Users, id \in BookIds, termsOk \in BOOLEAN, m \in BodyMessages :
          createExchangeRequest(u, id, termsOk, m)
    /\ UNCHANGED authState

DeleteAccount ==
    /\ \E u \in Users : deleteAccount(u)
    /\ UNCHANGED <<registering, now, env, requesting>>

\* The controller functions, called with the parameter name each one reads.
\* A handler answers an id of no document before it reads the caller or the
\* body, so those ids are tried with one caller and one body.
UpdateStatus ==
    \/ /\ \E u \in Users, id \in TxIds, s \in BodyStatuses, m \in BodyMessages :
             updateExchangeStatus(u, [exchangeId |-> id], s, m)
       /\ UNCHANGED authState
    \/ /\ \E id \in NoTxIds :
             updateExchangeStatus("bob", [exchangeId |-> id], "accepted", Undefined)
       /\ UNCHANGED authState

AddMessage ==
    \/ /\ \E u \in Users, id \in TxIds, m \in BodyMessages :
             addMessage(u, [exchangeId |-> id], m)
       /\ UNCHANGED authState
    \/ /\ \E id \in NoTxIds :
             addMessage("bob", [exchangeId |-> id], "hi")
       /\ UNCHANGED authState

GetDetails ==
    /\ \E u \in Users, id \in TxIds \cup NoTxIds :
          getExchangeDetails(u, [transactionId |-> id])
    /\ UNCHANGED authState

Next ==
    \/ CreateBook
    \/ DeleteBook
    \/ CreateRequest
    \/ UpdateStatus
    \/ AddMessage
    \/ GetDetails
    \/ DeleteAccount

Spec == Init /\ [][Next]_vars

\* The store after alice has listed a book and bob has requested it
\* (createBook, then createExchangeRequest), from which the request workflow
\* alone is run.
RequestedInit ==
    /\ users = Users
    /\ books = <<[owner |-> "alice", status |-> "pending", title |-> "Dune",
                  present |-> TRUE]>>
    /\ transactions = <<[book |-> BookId(1),
                         requester |-> "bob",
                         owner |-> "alice",
                         status |-> "pending",
                         lastModifiedBy |-> "bob",
                         messages |-> <<>>]>>
    /\ res = Respond("createExchangeRequest", 201, "")
    /\ writes = 0
    /\ accounts = Registered
    /\ registering = {}
    /\ now = 0
    /\ env = "s3cret"
    /\ requesting = {}

ExchangeNext ==
    \/ CreateRequest
    \/ UpdateStatus

ExchangeSpec == RequestedInit /\ [][ExchangeNext]_vars

\* The catalogue: books listed, edited, removed and requested.
CatalogNext ==
    \/ CreateBook
    \/ UpdateBook
    \/ DeleteBook
    \/ CreateRequest
    \/ DeleteAccount

CatalogSpec == Init /\ [][CatalogNext]_vars

\* The conversation on one pending request: status changes and messages.
ConversationNext ==
    \/ UpdateStatus
    \/ AddMessage

ConversationSpec == RequestedInit /\ [][ConversationNext]_vars

\* Emails a request may carry: one registered, one not.
BodyEmails == {Email("alice"), Email("dave")}

\* Passwords a request may carry; a body may carry none.
BodyPasswords == {Undefined, "pw", "new"}

\* Bodies of POST /api/auth/register: complete ones, two by two with the same
\* email, one without a name and one with two answers.
RegisterBodies ==
    {[email |-> e, password |-> "pw", name |-> n,
      securityAnswers |-> SecurityAnswers] :
        e \in BodyEmails, n \in {"Dave", "Dee"}}
    \cup {[email |-> Email("dave"), password |-> "pw",
           securityAnswers |-> SecurityAnswers],
          [email |-> Email("dave"), password |-> "pw", name |-> "Dave",
           securityAnswers |-> <<"rex", "oslo">>]}

\* The codes Math.random() may yield.
Otps == {"111111", "222222"}

\* Answer lists a request may carry: the right answers, as given and in
\* another case and spacing, lists with one wrong answer in each place, and a
\* list of two.
BodyAnswers ==
    {SecurityAnswers, <<" Rex ", "OSLO", "blue">>,
     <<"max", "oslo", "blue">>, <<"rex", "rome", "blue">>,
     <<"rex", "oslo", "red">>, <<"rex", "oslo">>}

Register ==
    \E body \in RegisterBodies : registerFind(body)

RegisterSave ==
    \E body \in registering : registerSave(body)

Login ==
    \E e \in BodyEmails, p \in BodyPasswords : login(e, p)

ForgotPassword ==
    \E e \in BodyEmails, otp \in Otps, sent \in BOOLEAN :
        forgotPassword(e, otp, sent)

ResetPassword ==
    \E e \in BodyEmails, otp \in Otps, p \in BodyPasswords :
        resetPassword(e, otp, p)

VerifySecurityAnswers ==
    \E e \in BodyEmails, a \in BodyAnswers : verifySecurityAnswers(e, a)

ResetPasswordWithSecurityAnswers ==
    \E e \in BodyEmails, a \in BodyAnswers, p \in BodyPasswords :
        resetPasswordWithSecurityAnswers(e, a, p)

\* routes/authRoutes.ts: the public routes of /api/auth, and the clock.
AuthNext ==
    \/ Register
    \/ RegisterSave
    \/ Login
    \/ ForgotPassword
    \/ ResetPassword
    \/ VerifySecurityAnswers
    \/ ResetPasswordWithSecurityAnswers
    \/ Tick

AuthSpec == Init /\ [][AuthNext]_vars

\* Configurations of the signing secret: JWT_SECRET not set, set to the empty
\* string, or set.
Secrets == {Undefined, "", "s3cret"}

\* A token signed by a client with the fallback key, for alice.
Forged == [userId |-> "alice", key |-> "defaultsecret", exp |-> MaxNow + Day]

\* The Authorization header of a request: none, the token the last register
\* or login answered with, or a token of the client's making.
Headers ==
    {<<>>, <<Forged>>}
        \cup (IF res.op \in {"register", "login"} /\ res.code \in {200, 201}
              THEN {<<res.token>>} ELSE {})

Authenticate == \E header \in Headers : auth(header)

\* The server started under any configuration of the secret.
TokenInit ==
    /\ users = Users
    /\ books = <<>>
    /\ transactions = <<>>
    /\ res = Respond("none", 0, "")
    /\ writes = 0
    /\ accounts = Registered
    /\ registering = {}
    /\ now = 0
    /\ env \in Secrets
    /\ requesting = {}

\* Tokens issued by register and login and presented to the middleware.
TokenNext ==
    \/ Register
    \/ RegisterSave
    \/ Login
    \/ Authenticate
    \/ Tick

TokenSpec == TokenInit /\ [][TokenNext]_vars

\* The longest catalogue listed.
MaxLen == 3

Genres == {"scifi", "crime"}

\* Queries of GET /api/books: a page, a genre filter or none, and the
\* recommended order or none.
Queries ==
    [page : {1, 2}, genre : {Undefined, "scifi"},
     sortBy : {Undefined, "recommended"}]

\* The Authorization header of a caller of GET /api/books: none, or the
\* token login gave a user.
Callers == {<<>>} \cup {<<sign(u, SignSecret)>> : u \in Users}

\* router.get('/', getBooks) is declared before router.use(auth): no
\* middleware reads the header, and req.userId is not set.
GetBooksAs(header, query) ==
    /\ getBooks(Undefined, query)
    /\ UNCHANGED authState

GetBooks == \E header \in Callers, query \in Queries : GetBooksAs(header, query)

\* A user document with preferences.genres set.
WithGenres(user, genres) ==
    [f \in DOMAIN user \cup {"genres"} |->
        IF f = "genres" THEN genres ELSE user[f]]

\* Any catalogue of up to MaxLen books of bob, available or pending, of any
\* genres, and any preferred genres of alice.
ListingInit ==
    /\ users = Users
    /\ \E n \in 0..MaxLen :
          books \in [1..n -> [owner : {"bob"}, status : {"available", "pending"},
                              title : {"Dune"}, genre : Genres,
                              present : {TRUE}]]
    /\ transactions = <<>>
    /\ res = Respond("none", 0, "")
    /\ writes = 0
    /\ \E genres \in SUBSET Genres :
          accounts = [Registered EXCEPT ![1] = WithGenres(@, genres)]
    /\ registering = {}
    /\ now = 0
    /\ env = "s3cret"
    /\ requesting = {}

ListingNext == GetBooks

ListingSpec == ListingInit /\ [][ListingNext]_vars

\* POST /api/transactions/request up to the answer of Book.findById.
RequestFind ==
    /\ \E u \in Users, id \in BookIds, termsOk \in BOOLEAN, m \in BodyMessages :
          createExchangeRequestFind(u, id, termsOk, m)
    /\ UNCHANGED <<accounts, registering, now, env>>

\* The save of a request in flight.
RequestSave ==
    /\ \E request \in requesting : createExchangeRequestSave(request)
    /\ UNCHANGED <<accounts, registering, now, env>>

\* The store with one available book of alice listed.
ListedInit ==
    /\ users = Users
    /\ books = <<[owner |-> "alice", status |-> "available",
                  title |-> "Dune", present |-> TRUE]>>
    /\ transactions = <<>>
    /\ res = Respond("none", 0, "")
    /\ writes = 0
    /\ accounts = Registered
    /\ registering = {}
    /\ now = 0
    /\ env = "s3cret"
    /\ requesting = {}

\* Requests for the listed book, interleaved at the database round trips.
RaceNext ==
    \/ RequestFind
    \/ RequestSave

RaceSpec == ListedInit /\ [][RaceNext]_vars

\* The store after bob and carol have both requested alice's book, each
\* having read it available before the other saved (RaceSpec reaches it).
ContestedInit ==
    /\ users = Users
    /\ books = <<[owner |-> "alice", status |-> "pending",
                  title |-> "Dune", present |-> TRUE]>>
    /\ transactions = [i \in 1..2 |->
                         [book |-> BookId(1),
                          requester |-> <<"bob", "carol">>[i],
                          owner |-> "alice",
                          status |-> "pending",
                          lastModifiedBy |-> <<"bob", "carol">>[i],
                          messages |-> <<>>]]
    /\ res = Respond("createExchangeRequest", 201, "")
    /\ writes = 0
    /\ accounts = Registered
    /\ registering = {}
    /\ now = 0
    /\ env = "s3cret"
    /\ requesting = {}

\* PATCH of the status of a stored transaction, without a text of the
\* caller's.
ChangeStatus ==
    /\ \E u \in Users, id \in TxIds, s \in BodyStatuses :
          updateExchangeStatus(u, [exchangeId |-> id], s, Undefined)
    /\ UNCHANGED authState

\* Further requests and status changes on the contested book.
ContestedNext ==
    \/ CreateRequest
    \/ ChangeStatus

ContestedSpec == ContestedInit /\ [][ContestedNext]_vars

\* Password recovery: the routes that write the reset code or, without the
\* current password, the password.
RecoveryNext ==
    \/ ForgotPassword
    \/ ResetPassword
    \/ ResetPasswordWithSecurityAnswers
    \/ Tick

RecoverySpec == Init /\ [][RecoveryNext]_vars

\* PATCH /api/users/profile/password with the token of alice or of bob.
UpdatePassword ==
    \E u \in {"alice", "bob"}, current \in BodyPasswords, p \in BodyPasswords :
        updateProfilePassword(u, current, p)

\* Every route that writes a password of a registered user.
PasswordNext ==
    \/ ForgotPassword
    \/ ResetPassword
    \/ ResetPasswordWithSecurityAnswers
    \/ UpdatePassword
    \/ Tick

PasswordSpec == Init /\ [][PasswordNext]_vars

\* routes/transactionRoutes.ts: the handlers behind the declared route
\* patterns; req.params carries the names the pattern declares.
PatchStatus ==
    /\ \E u \in Users, id \in TxIds \cup NoTxIds,
          s \in BodyStatuses, m \in BodyMessages :
           updateExchangeStatus(u, [requestId |-> id], s, m)
    /\ UNCHANGED authState

PostMessage ==
    /\ \E u \in Users, id \in TxIds \cup NoTxIds, m \in BodyMessages :
          addMessage(u, [exchangeId |-> id], m)
    /\ UNCHANGED authState

GetById ==
    /\ \E u \in Users, id \in TxIds \cup NoTxIds :
          getExchangeDetails(u, [exchangeId |-> id])
    /\ UNCHANGED authState

RoutedNext ==
    \/ CreateBook
    \/ DeleteBook
    \/ CreateRequest
    \/ PatchStatus
    \/ PostMessage
    \/ GetById
    \/ DeleteAccount

RoutedSpec == Init /\ [][RoutedNext]_vars

---------------------------------------------------------------------------
(* Properties *)

Terminal == {"cancelled", "rejected", "completed"}
Active == {"pending", "accepted"}

Ok(code) == code \in {200, 201}

\* The (role, requested status) pairs the transition table allows from pending.
AllowedFromPending(transaction, userId, status) ==
    \/ userId = transaction.owner /\ status \in {"accepted", "rejected"}
    \/ userId = transaction.requester /\ status = "cancelled"

\* C1: for a pending transaction, UpdateStatus succeeds only for (owner,
\* accepted), (owner, rejected) and (requester, cancelled); every other pair
\* of caller and requested status is rejected and leaves the status unchanged.
C1_OnlyTablePairsFromPending ==
    [][res'.op = "updateExchangeStatus" =>
        \A i \in 1..Len(transactions) :
            transactions[i].status = "pending" =>
                \A u \in Users, s \in BodyStatuses, m \in BodyMessages :
                    (/\ updateExchangeStatus(u, [exchangeId |-> TxId(i)], s, m)
                     /\ ~AllowedFromPending(transactions[i], u, s))
                    => /\ ~Ok(res'.code)
                       /\ transactions'[i].status = "pending"]_vars

\* C2: cancelled, rejected and completed are terminal: no operation changes
\* the status of a transaction that has one of them.
C2_TerminalStatusesStay ==
    [][\A i \in 1..Len(transactions) :
            transactions[i].status \in Terminal =>
                transactions'[i].status = transactions[i].status]_vars

ActiveOn(bookId) ==
    {i \in 1..Len(transactions) :
        transactions[i].book = bookId /\ transactions[i].status \in Active}

\* C3: after any sequence of CreateRequest and UpdateStatus calls, run one at
\* a time, each book is referenced by at most one transaction whose status is
\* pending or accepted.
C3_OneActiveTransactionPerBook ==
    \A b \in 1..Len(books) : Cardinality(ActiveOn(BookId(b))) <= 1

\* A step that answers an error and leaves the store as it was.
Refused == ~Ok(res'.code) /\ transactions' = transactions /\ books' = books

\* C4: CreateRequest against a book whose status is not available fails for
\* every caller: no transaction is created and the book status is unchanged.
\* (Stated contrapositively: a createExchangeRequest step that is not a
\* refusal is not a call against a pending or exchanged book.)
C4_UnavailableBookRefused ==
    [][(res'.op = "createExchangeRequest" /\ ~Refused) =>
        \A b \in 1..Len(books) :
            (books[b].present /\ books[b].status # "available") =>
                \A u \in Users, termsOk \in BOOLEAN, m \in BodyMessages :
                    ~createExchangeRequest(u, BookId(b), termsOk, m)]_vars

C4_Witness ==
    /\ res = Respond("createExchangeRequest", 400,
                     "Book is not available for exchange")
    /\ \E b \in 1..Len(books) : books[b].present /\ books[b].status = "pending"
    /\ Len(transactions) = 1

\* C5: a user can never create a request against their own book: CreateRequest
\* by the book's owner fails, and every transaction has requester # owner.
C5_NoSelfRequest ==
    /\ [](\A i \in 1..Len(transactions) :
            transactions[i].requester # transactions[i].owner)
    /\ [][(res'.op = "createExchangeRequest" /\ ~Refused) =>
            \A b \in 1..Len(books) :
                books[b].present =>
                    \A termsOk \in BOOLEAN, m \in BodyMessages :
                        ~createExchangeRequest(books[b].owner, BookId(b),
                                               termsOk, m)]_vars

C5_Witness ==
    /\ res = Respond("createExchangeRequest", 400, "Cannot request your own book")
    /\ \E b \in 1..Len(books) : books[b].present /\ books[b].status = "available"

\* The book a transaction refers to, in the store after the step.
BookOf(transaction) == books'[BookIndex(transaction.book)]

\* C6: immediately after a successful UpdateStatus to rejected or cancelled
\* the transaction's book (when it still exists) has status available;
\* immediately after a successful UpdateStatus to accepted it has status
\* pending.
C6_BookStatusFollowsTransition ==
    [][(res'.op = "updateExchangeStatus" /\ Ok(res'.code)) =>
        \A i \in 1..Len(transactions), u \in Users,
           s \in {"accepted", "rejected", "cancelled"}, m \in BodyMessages :
            (/\ updateExchangeStatus(u, [exchangeId |-> TxId(i)], s, m)
             /\ BookExists(transactions[i].book))
            => BookOf(transactions[i]).status =
                   IF s = "accepted" THEN "pending" ELSE "available"]_vars

C6_Witness ==
    /\ res = Respond("updateExchangeStatus", 200, "")
    /\ \E i \in 1..Len(transactions) :
          /\ transactions[i].status = "cancelled"
          /\ transactions[i].lastModifiedBy = transactions[i].requester
          /\ BookExists(transactions[i].book)
          /\ books[BookIndex(transactions[i].book)].status = "available"

\* C7: every transaction endpoint that takes an id in its URL path operates
\* on the transaction of that id: for the well-formed id of an existing
\* transaction, PATCH /:id/status does not fail with InvalidExchangeId and
\* GET /:id does not fail with NotFound.
C7_PathIdReachesHandler ==
    [][res'.op \in {"updateExchangeStatus", "getExchangeDetails"} =>
        \A id \in TxIds, u \in Users :
            /\ \A s \in {"accepted", "rejected", "cancelled"}, m \in BodyMessages :
                  updateExchangeStatus(u, [requestId |-> id], s, m)
                  => res'.error # "Invalid exchange ID"
            /\ getExchangeDetails(u, [exchangeId |-> id])
                  => res'.code # 404]_vars

\* The messages of a log sent by userId.
SentBy(messages, userId) ==
    {k \in 1..Len(messages) : messages[k].sender = userId}

\* C8: GetDetails on transaction T by participant A sets read=true on every
\* stored message of T whose sender is the other participant, and leaves the
\* read flag of A's own messages unchanged; GetDetails by a user who is
\* neither party changes no read flag.
C8_ReadReceiptOnDetails ==
    [][res'.op = "getExchangeDetails" =>
        \A i \in 1..Len(transactions), u \in Users :
            getExchangeDetails(u, [transactionId |-> TxId(i)]) =>
                LET before == transactions[i].messages
                    after == transactions'[i].messages
                    other == IF u = transactions[i].owner
                             THEN transactions[i].requester
                             ELSE transactions[i].owner
                IN  IF IsParticipant(transactions[i], u)
                    THEN /\ \A k \in SentBy(before, other) : after[k].read
                         /\ \A k \in SentBy(before, u) :
                                after[k].read = before[k].read
                    ELSE /\ ~Ok(res'.code)
                         /\ after = before]_vars

\* The fixed text of each status change.
FixedText(status) ==
    CASE status = "accepted" -> "Request accepted"
      [] status = "rejected" -> "Request rejected"
      [] status = "cancelled" -> "Request withdrawn"

\* C9: a successful UpdateStatus to accepted, rejected or cancelled made
\* without a caller-supplied message appends exactly one message, authored by
\* the acting user, with the fixed text of the status and read=false, and
\* leaves the earlier messages unchanged and in order.
C9_FixedTextAppended ==
    [][(res'.op = "updateExchangeStatus" /\ Ok(res'.code)) =>
        \A i \in 1..Len(transactions), u \in Users,
           s \in {"accepted", "rejected", "cancelled"} :
            updateExchangeStatus(u, [exchangeId |-> TxId(i)], s, Undefined) =>
                LET before == transactions[i].messages
                    after == transactions'[i].messages
                IN  /\ Len(after) = Len(before) + 1
                    /\ SubSeq(after, 1, Len(before)) = before
                    /\ after[Len(after)].sender = u
                    /\ after[Len(after)].content = FixedText(s)
                    /\ after[Len(after)].read = FALSE]_vars

C9_Witness ==
    /\ res = Respond("updateExchangeStatus", 200, "")
    /\ \E i \in 1..Len(transactions) :
          LET log == transactions[i].messages
          IN  /\ transactions[i].status = "accepted"
              /\ Len(log) = 2
              /\ log[1].sender = transactions[i].requester
              /\ log[2] = [sender |-> transactions[i].owner,
                           content |-> "Request accepted",
                           read |-> FALSE, notified |-> FALSE]

\* The ways two texts can be joined into one.
Separators == {"", " ", ": ", ". ", " - "}

Joined(a, b) == {a \o sep \o b : sep \in Separators}

\* C10 as claimed: with a caller-supplied message, the content of the appended
\* message is the fixed status text joined with the caller's text.
C10_ContentIsConcatenation ==
    [][(res'.op = "updateExchangeStatus" /\ Ok(res'.code)) =>
        \A i \in 1..Len(transactions), u \in Users,
           s \in {"accepted", "rejected", "cancelled"} :
            updateExchangeStatus(u, [exchangeId |-> TxId(i)], s, "hi") =>
                LET after == transactions'[i].messages
                IN  after[Len(after)].content \in
                        Joined(FixedText(s), "hi") \cup Joined("hi", FixedText(s))]_vars

\* C10 as amended: with a caller-supplied (non-empty) message, exactly one
\* message is appended and its content is the caller's text alone; the fixed
\* status text is not stored.
C10_ContentIsCallerText ==
    [][(res'.op = "updateExchangeStatus" /\ Ok(res'.code)) =>
        \A i \in 1..Len(transactions), u \in Users,
           s \in {"accepted", "rejected", "cancelled"} :
            updateExchangeStatus(u, [exchangeId |-> TxId(i)], s, "hi") =>
                LET before == transactions[i].messages
                    after == transactions'[i].messages
                IN  /\ Len(after) = Len(before) + 1
                    /\ SubSeq(after, 1, Len(before)) = before
                    /\ after[Len(after)].sender = u
                    /\ after[Len(after)].content = "hi"]_vars

C10_Witness ==
    /\ res = Respond("updateExchangeStatus", 200, "")
    /\ \E i \in 1..Len(transactions) :
          LET log == transactions[i].messages
          IN  /\ transactions[i].status = "rejected"
              /\ Len(log) = 1
              /\ log[1] = [sender |-> transactions[i].owner,
                           content |-> "hi",
                           read |-> FALSE, notified |-> FALSE]

\* The transactions other than the i-th are the same after the step.
OthersUnchanged(i) ==
    /\ Len(transactions') = Len(transactions)
    /\ \A j \in 1..Len(transactions) : j # i => transactions'[j] = transactions[j]

\* C11: AddMessage with a text by the requester or the owner succeeds in every
\* transaction status and appends exactly one message with sender = caller,
\* notified = true and read = false, leaving the transaction status, the books
\* and all earlier messages unchanged; AddMessage by any other user fails
\* Forbidden and appends nothing.
C11_MessageAppendedInEveryStatus ==
    [][res'.op = "addMessage" =>
        \A i \in 1..Len(transactions), u \in Users :
            addMessage(u, [exchangeId |-> TxId(i)], "hi") =>
                LET before == transactions[i]
                    after == transactions'[i]
                IN  IF u \in {before.requester, before.owner}
                    THEN /\ Ok(res'.code)
                         /\ after.messages = Append(before.messages,
                                [sender |-> u, content |-> "hi",
                                 read |-> FALSE, notified |-> TRUE])
                         /\ after = [before EXCEPT !.messages = after.messages]
                         /\ OthersUnchanged(i)
                         /\ books' = books
                    ELSE /\ res'.code = 403
                         /\ transactions' = transactions
                         /\ books' = books]_vars

\* A message has been added to a request that was rejected before.
C11_Witness ==
    /\ res = Respond("addMessage", 200, "")
    /\ \E i \in 1..Len(transactions) :
          LET log == transactions[i].messages
          IN  /\ transactions[i].status = "rejected"
              /\ Len(log) = 2
              /\ log[1].content = "Request rejected"
              /\ log[2] = [sender |-> transactions[i].requester,
                           content |-> "hi",
                           read |-> FALSE, notified |-> TRUE]

\* The other party of a transaction.
OtherParty(transaction, userId) ==
    IF userId = transaction.owner THEN transaction.requester
    ELSE transaction.owner

\* C12: UnreadCount(A) counts the transactions A is a party of that hold a
\* message of the other party with read = false: a transaction stops counting
\* for A after A's GetDetails on it (A and the other party being registered
\* participants), and counts again once the other party appends a message.
C12_UnreadCountFollowsReads ==
    [][res'.op \in {"getExchangeDetails", "addMessage"} =>
        \A i \in 1..Len(transactions) :
            \A A \in {transactions[i].requester, transactions[i].owner} \cap users :
                LET B == OtherParty(transactions[i], A)
                IN  /\ (B \in users /\
                         getExchangeDetails(A, [transactionId |-> TxId(i)]))
                        => i \notin UnreadFilter(transactions', A)
                    /\ addMessage(B, [exchangeId |-> TxId(i)], "hi")
                        => i \in UnreadFilter(transactions', A)]_vars

\* C13: Update never changes a book's status or owner, whatever fields the
\* request body carries: after every updateBook call each book has the status
\* and the owner it had, and no book is added or removed.
C13_UpdateKeepsStatusAndOwner ==
    [][res'.op = "updateBook" =>
        /\ Len(books') = Len(books)
        /\ \A b \in 1..Len(books) :
              /\ books'[b].status = books[b].status
              /\ books'[b].owner = books[b].owner
              /\ books'[b].present = books[b].present]_vars

\* A requested book has been retitled by its owner and is still pending.
C13_Witness ==
    /\ res = Respond("updateBook", 200, "")
    /\ \E b \in 1..Len(books) :
          books[b] = [owner |-> "alice", status |-> "pending",
                      title |-> "Emma", present |-> TRUE]

\* C14: Create always yields a book with owner = caller and status available,
\* for every request body, including one that carries its own status or owner.
C14_CreatedAvailableAndOwned ==
    [][res'.op = "createBook" =>
        \A u \in Listers, body \in CreateBodies :
            (createBook(u, body) /\ Len(books') = Len(books) + 1) =>
                /\ books'[Len(books')].owner = u
                /\ books'[Len(books')].status = "available"]_vars

\* C15: every book has status available or pending; no book ever has status
\* exchanged.
C15_NoBookExchanged ==
    \A b \in 1..Len(books) : books[b].status \in {"available", "pending"}

\* C16: Update by a caller who is not the book's owner fails Forbidden and
\* Delete by a caller who is not the owner fails NotFound; in both cases the
\* book is unchanged and still present.
C16_NonOwnerCannotEditOrDelete ==
    [][res'.op \in {"updateBook", "deleteBook"} =>
        \A b \in 1..Len(books), u \in Users :
            (books[b].present /\ u # books[b].owner) =>
                /\ \A body \in UpdateBodies :
                      updateBook(u, BookId(b), body) =>
                          res'.code = 403 /\ books' = books
                /\ deleteBook(u, BookId(b)) =>
                          res'.code = 404 /\ books' = books]_vars

\* An update by another user has been refused, the book being listed.
C16_Witness ==
    /\ res = Respond("updateBook", 403, "Not authorized to update this book")
    /\ \E b \in 1..Len(books) : books[b].present /\ books[b].title = "Dune"

\* The stored user with an email (there is one).
UserOf(email) == accounts[CHOOSE i \in FindByEmail(email) : TRUE]

\* C17: registering with an email that is already registered always yields
\* 400 "Email already registered" and never a second record: in every
\* interleaving of Register calls there is at most one user per email, and
\* every Register call with a complete body that does not create the user
\* answers that error.
C17_DuplicateEmailRefused ==
    /\ [](\A i, j \in 1..Len(accounts) :
            (/\ i # j
             /\ accounts[i].present
             /\ accounts[j].present) => accounts[i].email # accounts[j].email)
    /\ [][\A body \in RegisterBodies :
            (/\ RegisterInvalid(body) = ""
             /\ \/ registerFind(body) /\ registering' = registering
                \/ registerSave(body)
             /\ accounts' = accounts)
            => res' = Respond("register", 400, "Email already registered")]_vars

\* C18: Login with a registered email and a password that is not the
\* account's and Login with an unregistered email get the same response
\* (status code and error body).
C18_LoginResponseUniform ==
    \A e1, e2 \in BodyEmails, p \in BodyPasswords :
        (/\ FindByEmail(e1) # {}
         /\ FindByEmail(e2) = {}
         /\ ~compare(p, UserOf(e1).password))
        => loginResponse(e1, p) = loginResponse(e2, p)

\* The lists of three answers that are wrong for a user in some place.
WrongAnswers(user) ==
    {a \in BodyAnswers : Len(a) = 3 /\ ~AnswersMatch(user, a)}

\* C19: VerifySecurityAnswers and ResetPasswordWithSecurityAnswers called with
\* three answers fail with one uniform error: the response for an
\* unregistered email is the response for a registered email with a wrong
\* answer, and it is the same whichever answer is wrong.
C19_SecurityAnswerErrorUniform ==
    \A e1, e2 \in BodyEmails :
        (FindByEmail(e1) # {} /\ FindByEmail(e2) = {}) =>
            \A a, b \in WrongAnswers(UserOf(e1)) :
                /\ verifySecurityAnswersResponse(e1, a) =
                       verifySecurityAnswersResponse(e2, a)
                /\ verifySecurityAnswersResponse(e1, a) =
                       verifySecurityAnswersResponse(e1, b)
                /\ resetPasswordWithSecurityAnswersResponse(e1, a, "new") =
                       resetPasswordWithSecurityAnswersResponse(e2, a, "new")
                /\ resetPasswordWithSecurityAnswersResponse(e1, a, "new") =
                       resetPasswordWithSecurityAnswersResponse(e1, b, "new")

\* C20: a reset code is usable at most once and only before it expires: the
\* expiry stored with a code is one hour after its issue; ResetPassword
\* succeeds only if the code is the one stored for the user and the stored
\* expiry has not passed, and then sets the password and clears the code and
\* the expiry, so that the same code no longer matches; a ResetPassword that
\* fails leaves every account, the password included, as it was.
C20_ResetCodeOnceBeforeExpiry ==
    [][res'.op \in {"forgotPassword", "resetPassword"} =>
        \A e \in BodyEmails, otp \in Otps :
            /\ (forgotPassword(e, otp, TRUE) /\ Ok(res'.code)) =>
                  /\ UserOf(e)'.resetPasswordToken = otp
                  /\ UserOf(e)'.resetPasswordExpires = now + Hour
            /\ \A p \in BodyPasswords :
                  resetPassword(e, otp, p) =>
                      IF Ok(res'.code)
                      THEN /\ FindByEmail(e) # {}
                           /\ UserOf(e).resetPasswordToken = otp
                           /\ now < UserOf(e).resetPasswordExpires
                           /\ UserOf(e)'.password = Hash(p)
                           /\ UserOf(e)'.resetPasswordToken = Undefined
                           /\ UserOf(e)'.resetPasswordExpires = 0
                           /\ MatchesCode(e, otp)' = {}
                      ELSE accounts' = accounts]_vars

\* A reset with a code has set alice's password and cleared the code, and a
\* further reset has been refused, within the hour.
C20_Witness ==
    /\ res = Respond("resetPassword", 400, "Invalid or expired OTP")
    /\ writes = 2
    /\ now = 0
    /\ UserOf(Email("alice")).password = Hash("new")
    /\ UserOf(Email("alice")).resetPasswordToken = Undefined

\* C21: when the email send fails inside ForgotPassword, the call reports an
\* error and the code it stored is rolled back: after the call the user has
\* no stored reset code and no stored expiry, and the code generated by the
\* call is not accepted by ResetPassword.
C21_FailedSendRollsBack ==
    [][res'.op = "forgotPassword" =>
        \A e \in BodyEmails, otp \in Otps :
            (forgotPassword(e, otp, FALSE) /\ FindByEmail(e) # {}) =>
                /\ res' = Respond("forgotPassword", 500,
                                  "Failed to send OTP email")
                /\ UserOf(e)'.resetPasswordToken = Undefined
                /\ UserOf(e)'.resetPasswordExpires = 0
                /\ MatchesCode(e, otp)' = {}
                /\ UserOf(e)'.password = UserOf(e).password]_vars

\* A ForgotPassword whose email failed has answered, nothing being stored.
C21_Witness ==
    /\ res = Respond("forgotPassword", 500, "Failed to send OTP email")
    /\ writes = 1
    /\ UserOf(Email("alice")).resetPasswordToken = Undefined
    /\ UserOf(Email("alice")).resetPasswordExpires = 0

\* The stored credentials of a user: the hashed password and the hashed
\* security answers.
Credentials(user) ==
    {user.password} \cup {user.securityAnswers[k] : k \in 1..Len(user.securityAnswers)}

\* C22: no response body contains a user's stored credential: no rendering of
\* a stored user that a response embeds (the user of register, login and
\* updateProfile, the owner of a book, the requester, owner, message sender
\* and last modifier of a transaction) has a password or securityAnswers
\* field or a field holding one of the user's hashes.
C22_NoCredentialInResponse ==
    \A i \in 1..Len(accounts) :
        accounts[i].present =>
            \A v \in ResponseUsers(accounts[i]) :
                \A f \in DOMAIN v :
                    /\ f \notin {"password", "securityAnswers"}
                    /\ v[f] \notin Credentials(accounts[i])

\* A registration has answered with the user it stored.
C22_Witness ==
    /\ res.op = "register"
    /\ res.code = 201
    /\ \E i \in FindByEmail(Email("dave")) :
          /\ accounts[i].password = Hash("pw")
          /\ accounts[i].name = "Dee"

\* C23: a bearer token issued by Login or Register for user u and presented
\* before its expiry is accepted by the auth middleware, which sets the
\* caller identity u on the request, under every configuration of the signing
\* secret, the one with no secret configured included.
C23_IssuedTokenAccepted ==
    [][(/\ res.op \in {"register", "login"}
        /\ Ok(res.code)
        /\ auth(<<res.token>>)
        /\ now < res.token.exp)
       => /\ res'.code # 401
          /\ res'.userId = res.token.userId]_vars

---------------------------------------------------------------------------
(* C24 *)

\* No book outside the genres comes before one inside them.
PreferredFirst(list, genres) ==
    \A i, j \in 1..Len(list) :
        (i < j /\ list[j].genre \in genres) => list[i].genre \in genres

\* Two books on the same side of the genres keep the order of the collection.
KeepsOrder(list, genres) ==
    \A i, j \in 1..Len(list) :
        (i < j /\ (list[i].genre \in genres) = (list[j].genre \in genres))
            => BookIndex(list[i]._id) < BookIndex(list[j]._id)

\* C24: GET /api/books with sortBy=recommended, called with the token of a
\* user whose preferred genres are not empty, answers with every book of
\* those genres before every other book, each group in its original order.
C24_PreferredGenresFirst ==
    [][\A u \in Users, query \in Queries :
          (/\ res'.op = "getBooks"
           /\ query.sortBy = "recommended"
           /\ userGenres(u) # {}
           /\ GetBooksAs(<<sign(u, SignSecret)>>, query))
          => /\ PreferredFirst(res'.books, userGenres(u))
             /\ KeepsOrder(res'.books, userGenres(u))]_vars

---------------------------------------------------------------------------
(* C25 *)

\* The store holds nothing live of user u: no account, no book, and no
\* transaction of u that is not cancelled.
Erased(u, userSet, accountDocs, bookDocs, transactionDocs) ==
    /\ u \notin userSet
    /\ \A i \in 1..Len(accountDocs) :
          accountDocs[i]._id = u => ~accountDocs[i].present
    /\ \A i \in 1..Len(bookDocs) :
          bookDocs[i].owner = u => ~bookDocs[i].present
    /\ \A i \in 1..Len(transactionDocs) :
          u \in {transactionDocs[i].requester, transactionDocs[i].owner}
              => transactionDocs[i].status = "cancelled"

\* C25: after a successful DeleteAccount by u the user record is gone, no
\* book has owner u, every transaction with u as requester or owner is
\* cancelled, and every transaction record is still stored, with its book
\* and its parties.
C25_DeleteAccountCascades ==
    [][(res'.op = "deleteAccount" /\ res'.code = 200)
       => /\ \E u \in users \ users' :
                Erased(u, users', accounts', books', transactions')
          /\ Len(transactions') = Len(transactions)
          /\ \A i \in 1..Len(transactions) :
                /\ transactions'[i].book = transactions[i].book
                /\ transactions'[i].requester = transactions[i].requester
                /\ transactions'[i].owner = transactions[i].owner]_vars

\* alice's account is deleted after a request on a book of hers.
C25_Witness ==
    /\ res.op = "deleteAccount"
    /\ res.code = 200
    /\ \E u \in Users \ users :
          /\ \E i \in 1..Len(books) : books[i].owner = u
          /\ \E i \in 1..Len(transactions) :
                /\ transactions[i].owner = u
                /\ transactions[i].status = "cancelled"

---------------------------------------------------------------------------
(* C26 *)

\* C26: a request that passed the availability check is saved with success
\* whatever the status of the book has become since: its transaction is
\* stored pending and the caller is answered 201.  Two requests by different
\* users that both passed the check before either saved leave two pending
\* transactions on the same book (C26_Witness).
C26_CheckedRequestCommits ==
    [][\A request \in requesting :
          (/\ res'.op = "createExchangeRequest"
           /\ request.termsOk
           /\ createExchangeRequestSave(request))
          => /\ res'.code = 201
             /\ Len(transactions') = Len(transactions) + 1
             /\ transactions'[Len(transactions')].status = "pending"
             /\ transactions'[Len(transactions')].book = request.bookId
             /\ transactions'[Len(transactions')].requester = request.userId]_vars

\* Two pending transactions of different requesters on the same book, the
\* second of them just answered 201.
C26_Witness ==
    /\ res.op = "createExchangeRequest"
    /\ res.code = 201
    /\ \E i, j \in 1..Len(transactions) :
          /\ i < j
          /\ transactions[i].book = transactions[j].book
          /\ transactions[i].requester # transactions[j].requester
          /\ transactions[i].status = "pending"
          /\ transactions[j].status = "pending"

---------------------------------------------------------------------------
(* C27 *)

\* C27: in every reachable state, a transaction with status accepted has a
\* book that, when it is still stored, has status pending.
C27_AcceptedHoldsBook ==
    \A i \in 1..Len(transactions) :
        (transactions[i].status = "accepted" /\ BookExists(transactions[i].book))
            => books[BookIndex(transactions[i].book)].status = "pending"

---------------------------------------------------------------------------
(* C28 *)

\* C28: no book is stuck in pending: every stored book with status pending
\* is the book of at least one transaction with status pending or accepted.
C28_PendingBookHasActiveTransaction ==
    \A b \in 1..Len(books) :
        (books[b].present /\ books[b].status = "pending")
            => ActiveOn(BookId(b)) # {}

---------------------------------------------------------------------------
(* C29 *)

\* The messages of transaction i before a step are, in order and with their
\* sender and content, the first messages of the transaction after it.
LogKept(i) ==
    /\ i <= Len(transactions')
    /\ Len(transactions'[i].messages) >= Len(transactions[i].messages)
    /\ \A k \in 1..Len(transactions[i].messages) :
          /\ transactions'[i].messages[k].sender
                = transactions[i].messages[k].sender
          /\ transactions'[i].messages[k].content
                = transactions[i].messages[k].content

\* A read flag of transaction i that the step changes goes from false to
\* true, on a successful getExchangeDetails of a participant other than the
\* sender of the message.
ReadOnlyByOtherParty(i) ==
    \A k \in 1..Len(transactions[i].messages) :
        LET before == transactions[i].messages[k]
            after == transactions'[i].messages[k]
        IN  after.read # before.read
                => /\ ~before.read
                   /\ after.read
                   /\ res'.op = "getExchangeDetails"
                   /\ Ok(res'.code)
                   /\ \E u \in Users \ {before.sender} :
                         /\ IsParticipant(transactions[i], u)
                         /\ getExchangeDetails(u, [transactionId |-> TxId(i)])

\* C29: the message log of a transaction is append-only: no operation
\* removes or reorders a message or changes its sender or content, and a
\* read flag changes only from false to true, through a successful
\* GetDetails by the participant who is not the sender.
C29_MessageLogAppendOnly ==
    [][\A i \in 1..Len(transactions) :
          LogKept(i) /\ ReadOnlyByOtherParty(i)]_vars

\* A message has been appended behind the message the request was made with.
C29_Witness ==
    /\ res.op = "addMessage"
    /\ res.code = 200
    /\ \E i \in 1..Len(transactions) :
          /\ Len(transactions[i].messages) = 2
          /\ transactions[i].messages[1].sender
                # transactions[i].messages[2].sender

---------------------------------------------------------------------------
(* C30 *)

\* The step changes the stored password of user i.
PasswordChanged(i) == accounts'[i].password # accounts[i].password

\* A resetPassword call changes only the password of the user of the email,
\* and only with the code stored for that user, before it expires.
ByResetCode ==
    \A e \in BodyEmails, otp \in Otps, p \in BodyPasswords :
        resetPassword(e, otp, p)
            => \A i \in 1..Len(accounts) :
                  PasswordChanged(i)
                      => /\ i \in FindByEmail(e)
                         /\ accounts[i].resetPasswordToken = otp
                         /\ now < accounts[i].resetPasswordExpires

\* A resetPasswordWithSecurityAnswers call changes only the password of the
\* user of the email, and only with the three answers of that user.
ByAnswers ==
    \A e \in BodyEmails, a \in BodyAnswers, p \in BodyPasswords :
        resetPasswordWithSecurityAnswers(e, a, p)
            => \A i \in 1..Len(accounts) :
                  PasswordChanged(i)
                      => /\ i \in FindByEmail(e)
                         /\ Len(a) = 3
                         /\ \A k \in 1..3 :
                               Hash(Normalize(a[k]))
                                   = accounts[i].securityAnswers[k]

\* An updateProfilePassword call changes only the password of the caller,
\* and only with the caller's current password.
ByCurrentPassword ==
    \A u \in Users, current \in BodyPasswords, p \in BodyPasswords :
        updateProfilePassword(u, current, p)
            => \A i \in 1..Len(accounts) :
                  PasswordChanged(i)
                      => /\ accounts[i]._id = u
                         /\ Hash(current) = accounts[i].password

\* C30: the stored password of a user changes only through ResetPassword
\* with a matching unexpired code, ResetPasswordWithSecurityAnswers with
\* all three answers matching, or UpdatePassword by that user with the
\* correct current password; every other call leaves it unchanged.
C30_PasswordChangesOnlyWithProof ==
    [][/\ (\E i \in 1..Len(accounts) : PasswordChanged(i))
            => /\ Ok(res'.code)
               /\ res'.op \in {"resetPassword",
                               "resetPasswordWithSecurityAnswers",
                               "updateProfilePassword"}
       /\ res'.op = "resetPassword" => ByResetCode
       /\ res'.op = "resetPasswordWithSecurityAnswers" => ByAnswers
       /\ res'.op = "updateProfilePassword" => ByCurrentPassword]_vars

\* alice has changed her password with her current one.
C30_Witness ==
    /\ res.op = "updateProfilePassword"
    /\ res.code = 200
    /\ accounts[1].password = Hash("new")

====
